---- MODULE Spec2Model ----
(***************************************************************************)
(* A model of the Stream wrapper of src/src/lib.rs: an owning handle to    *)
(* one channel of the native BASS engine.  The engine is the environment:  *)
(* every value it returns (handles, BOOL results, last error codes,        *)
(* attribute values, positions) is chosen nondeterministically.  One       *)
(* client constructs one Stream, calls its methods in any order and lets   *)
(* it go out of scope.  Panics unwind (Rust's default), so a panic inside  *)
(* a method is followed by the drop of the Stream the caller owns.         *)
(***************************************************************************)
EXTENDS Integers, Sequences, FiniteSets

VARIABLES
    platform,   \* cfg(target_family) of the build: "windows" or "unix"
    phase,      \* where the client is: start, live, failed, unwinding, dropped, panicked, aborted
    handle,     \* Stream.handle (0 while no Stream exists)
    calls,      \* the engine calls made by the last wrapper operation, in order
    result,     \* what the last wrapper operation gave back to its caller
    freed,      \* the handles passed to BASS_StreamFree so far, in order
    opened,     \* the non-zero handle the engine's open call returned (0: none yet)
    lastError,  \* the engine's last error code, what BASS_ErrorGetCode returns
    arg,        \* the f32 the caller passed to the last operation (0 when it takes none)
    buf         \* life of the last constructor's native string: alloc, call, free events

vars == <<platform, phase, handle, calls, result, freed, opened, lastError, arg, buf>>

\* ------------------------------------------------------------------ bounds
MaxHandle == 2
MaxValue == 2

Handles == 0..MaxHandle
Values == 0..MaxValue          \* f32 / f64 / u64 values the engine or the caller supplies
Platforms == {"windows", "unix"}

\* The last error codes the engine may report (bass_sys names); the last
\* four have no arm in any match of the wrapper.
ErrorCodes ==
    { "BASS_ERROR_MEM", "BASS_ERROR_FILEOPEN", "BASS_ERROR_FORMAT",
      "BASS_ERROR_START", "BASS_ERROR_SSL", "BASS_ERROR_NOTAUDIO",
      "BASS_ERROR_NOPLAY", "BASS_ERROR_NONET", "BASS_ERROR_TIMEOUT",
      "BASS_ERROR_FILEFORM", "BASS_ERROR_CODEC", "BASS_ERROR_UNSTREAMABLE",
      "BASS_ERROR_PROTOCOL",
      "BASS_OK", "BASS_ERROR_HANDLE", "BASS_ERROR_NO3D", "BASS_ERROR_UNKNOWN" }

\* What freeing one allocation twice can do in a build: the allocator
\* detects it and aborts the process, or execution goes on.
UBOutcomes == {"abort", "continue"}

\* ------------------------------------------------------------- enum BassError
BassError ==
    { "OutputIsPausedOrStopped", "StreamIsNotPlayable", "StreamIsNotPlaying",
      "FileCouldNotBeOpened", "InvalidFileFormat", "InvalidFileContent",
      "InvalidCodec", "InvalidSampleFormat", "InsufficientMemory",
      "CouldNotInitialize3DSupport", "NoInternetConnection", "InvalidProtocol",
      "SslSupportNotAvailable", "UnstreamableFile", "TimeOut" }

\* ------------------------------------------------------------------ helpers
Call(fn, args, ret) == [fn |-> fn, args |-> args, ret |-> ret]

\* kind: none, Ok, Err, panic, abort; err: the BassError variant of an Err (or
\* what a panic or abort was about); num: the number an Ok carries, 0 for ().
Res(op, kind, err, num) == [op |-> op, kind |-> kind, err |-> err, num |-> num]

\* The error codes the engine may leave behind a call that returned ret: a
\* failed call (a zero result) leaves any code, a successful one clears it.
EngineError(ret) == IF ret # 0 THEN {"BASS_OK"} ELSE ErrorCodes

CountFn(cs, fn) == Cardinality({i \in 1..Len(cs) : cs[i].fn = fn})

CountEv(b, ev) == Cardinality({i \in 1..Len(b) : b[i] = ev})

Init ==
    /\ platform \in Platforms
    /\ phase = "start"
    /\ handle = 0
    /\ calls = <<>>
    /\ result = Res("none", "none", "none", 0)
    /\ freed = <<>>
    /\ opened = 0
    /\ lastError = "BASS_OK"
    /\ arg = 0
    /\ buf = <<>>

\* ------------------------------------------------------------ construction
\* The flag the open call gets: the wide-character build passes BASS_UNICODE.
UnicodeFlag(pf) == IF pf = "windows" THEN {"BASS_UNICODE"} ELSE {}

\* Whether the local that made the native string still owns it at the end of
\* the cfg block: as_ptr() borrows (the CString is freed when the block
\* ends), into_raw() gives ownership away.
OwnedByBlock(pf) == pf = "unix"

\* create_from_file: the string is made, handed to the engine, and freed by
\* its owner (if it still has one) when the block ends.
FileBuf(pf) ==
    <<"alloc", "call">> \o (IF OwnedByBlock(pf) THEN <<"free">> ELSE <<>>)

\* create_from_url: after the call from_raw() rebuilds an owning string from
\* the pointer and drops it at once; then the block ends as above.
UrlBuf(pf) ==
    <<"alloc", "call", "free">> \o (IF OwnedByBlock(pf) THEN <<"free">> ELSE <<>>)

\* The engine function each constructor opens the stream with.
FileOpenFn == "BASS_StreamCreateFile"

UrlOpenFn == "BASS_StreamCreateFile"

OpenCall(fn, name, pf, h) == Call(fn, <<0, name, 0, 0, UnicodeFlag(pf)>>, h)

\* A create_from_file whose match lacks the BASS_ERROR_FILEOPEN arm.
FileErrorMatchNoFileOpen(code) ==
    CASE code = "BASS_ERROR_FILEFORM" -> "InvalidFileFormat"
      [] code = "BASS_ERROR_NOTAUDIO" -> "InvalidFileContent"
      [] code = "BASS_ERROR_CODEC" -> "InvalidCodec"
      [] code = "BASS_ERROR_FORMAT" -> "InvalidSampleFormat"
      [] code = "BASS_ERROR_MEM" -> "InsufficientMemory"
      [] OTHER -> "panic"

\* match error_code of create_from_file; "panic" is the `_` arm.
FileErrorMatch(code) ==
    CASE code = "BASS_ERROR_FILEOPEN" -> "FileCouldNotBeOpened"
      [] code = "BASS_ERROR_FILEFORM" -> "InvalidFileFormat"
      [] code = "BASS_ERROR_NOTAUDIO" -> "InvalidFileContent"
      [] code = "BASS_ERROR_CODEC" -> "InvalidCodec"
      [] code = "BASS_ERROR_FORMAT" -> "InvalidSampleFormat"
      [] code = "BASS_ERROR_MEM" -> "InsufficientMemory"
      [] OTHER -> "panic"

\* match error_code of create_from_url.
UrlErrorMatch(code) ==
    CASE code = "BASS_ERROR_NONET" -> "NoInternetConnection"
      [] code = "BASS_ERROR_PROTOCOL" -> "InvalidProtocol"
      [] code = "BASS_ERROR_SSL" -> "SslSupportNotAvailable"
      [] code = "BASS_ERROR_TIMEOUT" -> "TimeOut"
      [] code = "BASS_ERROR_FILEOPEN" -> "FileCouldNotBeOpened"
      [] code = "BASS_ERROR_FILEFORM" -> "InvalidFileFormat"
      [] code = "BASS_ERROR_UNSTREAMABLE" -> "UnstreamableFile"
      [] code = "BASS_ERROR_NOTAUDIO" -> "InvalidFileContent"
      [] code = "BASS_ERROR_CODEC" -> "InvalidCodec"
      [] code = "BASS_ERROR_FORMAT" -> "InvalidSampleFormat"
      [] code = "BASS_ERROR_MEM" -> "InsufficientMemory"
      [] OTHER -> "panic"

ErrorQuery(code) == Call("BASS_ErrorGetCode", <<>>, code)

\* CString::new / U16CString::from_str fail on an interior NUL and unwrap()
\* panics before the engine is called; no Stream exists to drop.
MarshalPanic(op) ==
    /\ phase' = "panicked"
    /\ handle' = 0
    /\ calls' = <<>>
    /\ result' = Res(op, "panic", "NulError", 0)
    /\ opened' = 0
    /\ lastError' = lastError
    /\ buf' = <<>>

\* `if handle == 0 { match BASS_ErrorGetCode() ... } Ok(Stream { handle })`,
\* after the open call `open` returned h.  The `_` arm queries the code a
\* second time for its message.  code is the engine's last error.
Classify(op, open, h, code, variant) ==
    IF h # 0
    THEN /\ phase' = "live"
         /\ handle' = h
         /\ calls' = <<open>>
         /\ result' = Res(op, "Ok", "none", h)
         /\ opened' = h
    ELSE IF variant # "panic"
    THEN /\ phase' = "failed"
         /\ handle' = 0
         /\ calls' = <<open, ErrorQuery(code)>>
         /\ result' = Res(op, "Err", variant, 0)
         /\ opened' = 0
    ELSE /\ phase' = "panicked"
         /\ handle' = 0
         /\ calls' = <<open, ErrorQuery(code), ErrorQuery(code)>>
         /\ result' = Res(op, "panic", code, 0)
         /\ opened' = 0

create_from_file ==
    /\ phase = "start"
    /\ \E hasNul \in BOOLEAN, h \in Handles : \E code \in EngineError(h) :
         IF hasNul
         THEN MarshalPanic("create_from_file")
         ELSE /\ buf' = FileBuf(platform)
              /\ lastError' = code
              /\ Classify("create_from_file",
                          OpenCall(FileOpenFn, "file_name_raw", platform, h),
                          h, code, FileErrorMatch(code))
    /\ UNCHANGED <<platform, freed, arg>>

\* The second free of one allocation is undefined behaviour: the build either
\* aborts there (before the handle is even looked at) or goes on.
create_from_url ==
    /\ phase = "start"
    /\ \E hasNul \in BOOLEAN, h \in Handles, ub \in UBOutcomes : \E code \in EngineError(h) :
         IF hasNul
         THEN MarshalPanic("create_from_url")
         ELSE /\ buf' = UrlBuf(platform)
              /\ lastError' = code
              /\ IF CountEv(UrlBuf(platform), "free") > 1 /\ ub = "abort"
                 THEN /\ phase' = "aborted"
                      /\ handle' = 0
                      /\ calls' = <<OpenCall(UrlOpenFn, "url_raw", platform, h)>>
                      /\ result' = Res("create_from_url", "abort", "double free", 0)
                      /\ opened' = 0
                 ELSE Classify("create_from_url",
                               OpenCall(UrlOpenFn, "url_raw", platform, h),
                               h, code, UrlErrorMatch(code))
    /\ UNCHANGED <<platform, freed, arg>>

\* -------------------------------------------------------- transport control
\* The BOOL an engine call returns: 0 is failure.
Bools == {0, 1}

\* A play() that matches the code pause() matches.
PlayMatchNoPlay(code) ==
    IF code = "BASS_ERROR_NOPLAY" THEN "OutputIsPausedOrStopped" ELSE "panic"

\* match error_code of play(); "panic" is the `_` arm.
PlayMatch(code) ==
    IF code = "BASS_ERROR_START" THEN "OutputIsPausedOrStopped" ELSE "panic"

\* match error_code of pause().
PauseMatch(code) ==
    IF code = "BASS_ERROR_NOPLAY" THEN "StreamIsNotPlaying" ELSE "panic"

\* A stop() that hands a recoverable error back as play() and pause() do.
NoMatchRecovers(code) ==
    IF code = "BASS_ERROR_NOPLAY" THEN "StreamIsNotPlaying" ELSE "panic"

\* stop(), lock() and unlock() have no match: a zero result panics.
NoMatch(code) == "panic"

\* `if call == 0 { match BASS_ErrorGetCode() ... } Ok(())` on a live Stream.
\* A panic leaves the method by unwinding; the caller's Stream is dropped next.
Transport(op, call, code, variant) ==
    /\ lastError' = code
    /\ IF call.ret # 0
       THEN /\ phase' = "live"
            /\ calls' = <<call>>
            /\ result' = Res(op, "Ok", "none", 0)
       ELSE IF variant # "panic"
       THEN /\ phase' = "live"
            /\ calls' = <<call, ErrorQuery(code)>>
            /\ result' = Res(op, "Err", variant, 0)
       ELSE /\ phase' = "unwinding"
            /\ calls' = <<call, ErrorQuery(code)>>
            /\ result' = Res(op, "panic", code, 0)

play ==
    /\ phase = "live"
    /\ \E ret \in Bools : \E code \in EngineError(ret) :
         Transport("play", Call("BASS_ChannelPlay", <<handle, 0>>, ret),
                   code, PlayMatch(code))
    /\ arg' = 0
    /\ UNCHANGED <<platform, handle, freed, opened, buf>>

pause ==
    /\ phase = "live"
    /\ \E ret \in Bools : \E code \in EngineError(ret) :
         Transport("pause", Call("BASS_ChannelPause", <<handle>>, ret),
                   code, PauseMatch(code))
    /\ arg' = 0
    /\ UNCHANGED <<platform, handle, freed, opened, buf>>

stop ==
    /\ phase = "live"
    /\ \E ret \in Bools : \E code \in EngineError(ret) :
         Transport("stop", Call("BASS_ChannelStop", <<handle>>, ret),
                   code, NoMatch(code))
    /\ arg' = 0
    /\ UNCHANGED <<platform, handle, freed, opened, buf>>

lock ==
    /\ phase = "live"
    /\ \E ret \in Bools : \E code \in EngineError(ret) :
         Transport("lock", Call("BASS_ChannelLock", <<handle, 1>>, ret),
                   code, NoMatch(code))
    /\ arg' = 0
    /\ UNCHANGED <<platform, handle, freed, opened, buf>>

unlock ==
    /\ phase = "live"
    /\ \E ret \in Bools : \E code \in EngineError(ret) :
         Transport("unlock", Call("BASS_ChannelLock", <<handle, 0>>, ret),
                   code, NoMatch(code))
    /\ arg' = 0
    /\ UNCHANGED <<platform, handle, freed, opened, buf>>

\* ------------------------------------------------------- attribute accessors
\* Each getter and the attribute identifier it passes.
Getters ==
    [ get_bit_rate |-> "BASS_ATTRIB_BITRATE",
      get_buffering_length |-> "BASS_ATTRIB_BUFFER",
      get_sample_rate |-> "BASS_ATTRIB_FREQ",
      get_processing_granularity |-> "BASS_ATTRIB_GRANULE",
      get_buffer_level_required_to_resume_stalled_playback |-> "BASS_ATTRIB_NET_RESUME",
      get_playback_buffering_switch |-> "BASS_ATTRIB_NOBUFFER",
      get_playback_ramping_switch |-> "BASS_ATTRIB_NORAMP",
      get_panning_position |-> "BASS_ATTRIB_PAN",
      get_sample_rate_conversion_quality |-> "BASS_ATTRIB_SRC",
      get_volume |-> "BASS_ATTRIB_VOL" ]

\* Each setter and the attribute identifier it passes.
Setters ==
    [ set_buffering_length |-> "BASS_ATTRIB_BUFFER",
      set_sample_rate |-> "BASS_ATTRIB_FREQ",
      set_processing_granularity |-> "BASS_ATTRIB_GRANULE",
      set_buffer_level_required_to_resume_stalled_playback |-> "BASS_ATTRIB_NET_RESUME",
      set_playback_buffering_switch |-> "BASS_ATTRIB_NOBUFFER",
      set_playback_ramping_switch |-> "BASS_ATTRIB_NORAMP",
      set_panning_position |-> "BASS_ATTRIB_PAN",
      set_volume |-> "BASS_ATTRIB_VOL" ]

\* `let mut x = 0.0f32;`
LocalInit == 0

\* A getter whose local starts at another value than 0.0.
GetterReturnOtherInit(wrote) == IF wrote = <<>> THEN LocalInit + 1 ELSE wrote[1]

\* The engine stores through the out pointer only when it succeeds: wrote is
\* <<v>> when it stored v and <<>> when it left the local alone.  The getter
\* returns the local whatever the BOOL was.
GetterReturn(wrote) == IF wrote = <<>> THEN LocalInit ELSE wrote[1]

GetAttributeCall(h, attrib, ret, v) ==
    [ fn |-> "BASS_ChannelGetAttribute", args |-> <<h, attrib, "out">>,
      ret |-> ret, wrote |-> IF ret # 0 THEN <<v>> ELSE <<>> ]

\* What a getter hands back after the engine call c.
GetterResult(g, c) == Res(g, "Ok", "none", GetterReturn(c.wrote))

get_attribute(g) ==
    /\ phase = "live"
    /\ \E ret \in Bools, v \in Values : \E code \in EngineError(ret) :
         LET c == GetAttributeCall(handle, Getters[g], ret, v)
         IN  /\ lastError' = code
             /\ calls' = <<c>>
             /\ result' = GetterResult(g, c)
    /\ arg' = 0
    /\ UNCHANGED <<platform, phase, handle, freed, opened, buf>>

\* A setter that passes a fixed value instead of the caller's.
SetAttributeCallFixed(h, s, value, ret) ==
    Call("BASS_ChannelSetAttribute", <<h, Setters[s], 0>>, ret)

\* The call a setter makes with the caller's value.
SetAttributeCall(h, s, value, ret) ==
    Call("BASS_ChannelSetAttribute", <<h, Setters[s], value>>, ret)

\* A setter ignores the BOOL the engine returns.
SetterResult(s, c) == Res(s, "Ok", "none", 0)

set_attribute(s) ==
    /\ phase = "live"
    /\ \E value \in Values, ret \in Bools : \E code \in EngineError(ret) :
         LET c == SetAttributeCall(handle, s, value, ret)
         IN  /\ lastError' = code
             /\ arg' = value
             /\ calls' = <<c>>
             /\ result' = SetterResult(s, c)
    /\ UNCHANGED <<platform, phase, handle, freed, opened, buf>>

PositionCall(h, p) == Call("BASS_ChannelGetPosition", <<h, 0>>, p)

get_position ==
    /\ phase = "live"
    /\ \E p \in Values :
         /\ lastError' = "BASS_OK"
         /\ calls' = <<PositionCall(handle, p)>>
         /\ result' = Res("get_position", "Ok", "none", p)
    /\ arg' = 0
    /\ UNCHANGED <<platform, phase, handle, freed, opened, buf>>

get_time ==
    /\ phase = "live"
    /\ \E p \in Values, t \in Values :
         /\ lastError' = "BASS_OK"
         /\ calls' = <<PositionCall(handle, p),
                       Call("BASS_ChannelBytes2Seconds", <<handle, p>>, t)>>
         /\ result' = Res("get_time", "Ok", "none", t)
    /\ arg' = 0
    /\ UNCHANGED <<platform, phase, handle, freed, opened, buf>>

\* ------------------------------------------------------------------- release
\* A drop() that forgets to free the handle.
DropLeaks(fr, h) == fr

\* What drop() does to the record of freed handles.
DropFrees(fr, h) == Append(fr, h)

\* A drop() that panics when BASS_StreamFree fails.
DropOutcomeChecked(ph, ret) ==
    IF ph = "live" /\ ret # 0 THEN "dropped" ELSE "panicked"

\* drop() ignores the BOOL BASS_StreamFree returns.  It runs when the Stream
\* goes out of scope normally and when a panic unwinds through its owner.
DropOutcome(ph, ret) == IF ph = "live" THEN "dropped" ELSE "panicked"

drop ==
    /\ phase \in {"live", "unwinding"}
    /\ \E ret \in Bools : \E code \in EngineError(ret) :
         /\ lastError' = code
         /\ calls' = <<Call("BASS_StreamFree", <<handle>>, ret)>>
         /\ phase' = DropOutcome(phase, ret)
    /\ freed' = DropFrees(freed, handle)
    /\ result' = IF phase = "live" THEN Res("drop", "Ok", "none", 0) ELSE result
    /\ arg' = 0
    /\ UNCHANGED <<platform, handle, opened, buf>>

Next ==
    \/ create_from_file
    \/ create_from_url
    \/ play
    \/ pause
    \/ stop
    \/ lock
    \/ unlock
    \/ \E g \in DOMAIN Getters : get_attribute(g)
    \/ \E s \in DOMAIN Setters : set_attribute(s)
    \/ get_position
    \/ get_time
    \/ drop

Spec == Init /\ [][Next]_vars

\* ==================================================================== claims
\* The last operation is op and calls still holds the engine calls it made
\* (a drop that follows a panic overwrites calls but not result).
JustRan(op) == result.op = op /\ phase \in {"live", "unwinding"}

\* C1: a Stream that was constructed is freed exactly once, with the handle
\* its constructor obtained, when it goes out of scope (normally or by a
\* panic unwinding), never while it is still in scope and never twice; no
\* free happens when no Stream was constructed.
C1_FreedExactlyOnce ==
    /\ Len(freed) <= 1
    /\ (phase \in {"live", "unwinding"}) => freed = <<>>
    /\ (opened # 0 /\ phase \in {"dropped", "panicked"}) => freed = <<opened>>
    /\ (opened = 0) => freed = <<>>

\* A Stream whose method panicked has been released with its own handle.
C1_Witness ==
    /\ phase = "panicked"
    /\ opened # 0
    /\ result.kind = "panic"
    /\ freed = <<opened>>

\* The variant the six last-error codes of file opening map to.
FileTable ==
    [ BASS_ERROR_FILEOPEN |-> "FileCouldNotBeOpened",
      BASS_ERROR_FILEFORM |-> "InvalidFileFormat",
      BASS_ERROR_NOTAUDIO |-> "InvalidFileContent",
      BASS_ERROR_CODEC |-> "InvalidCodec",
      BASS_ERROR_FORMAT |-> "InvalidSampleFormat",
      BASS_ERROR_MEM |-> "InsufficientMemory" ]

\* C2: create_from_file, once its path is marshalled, returns a Stream with
\* the engine's handle and asks for no error code when the handle is not 0;
\* when it is 0 it returns the variant FileTable gives for the engine's last
\* error code and panics, returning nothing, for every other code.
C2_CreateFromFileClassifies ==
    (result.op = "create_from_file" /\ calls # <<>>) =>
        LET h == calls[1].ret
        IN  IF h # 0
            THEN /\ result = Res("create_from_file", "Ok", "none", h)
                 /\ phase = "live"
                 /\ handle = h
                 /\ CountFn(calls, "BASS_ErrorGetCode") = 0
            ELSE IF lastError \in DOMAIN FileTable
            THEN /\ result = Res("create_from_file", "Err", FileTable[lastError], 0)
                 /\ phase = "failed"
            ELSE /\ result.kind = "panic"
                 /\ phase = "panicked"

\* The scenario of the specification: handle 0, "file open failed".
C2_Witness ==
    /\ result = Res("create_from_file", "Err", "FileCouldNotBeOpened", 0)
    /\ calls[1].ret = 0
    /\ lastError = "BASS_ERROR_FILEOPEN"

\* The variant the eleven last-error codes of URL opening map to.
UrlTable ==
    [ BASS_ERROR_NONET |-> "NoInternetConnection",
      BASS_ERROR_PROTOCOL |-> "InvalidProtocol",
      BASS_ERROR_SSL |-> "SslSupportNotAvailable",
      BASS_ERROR_TIMEOUT |-> "TimeOut",
      BASS_ERROR_FILEOPEN |-> "FileCouldNotBeOpened",
      BASS_ERROR_FILEFORM |-> "InvalidFileFormat",
      BASS_ERROR_UNSTREAMABLE |-> "UnstreamableFile",
      BASS_ERROR_NOTAUDIO |-> "InvalidFileContent",
      BASS_ERROR_CODEC |-> "InvalidCodec",
      BASS_ERROR_FORMAT |-> "InvalidSampleFormat",
      BASS_ERROR_MEM |-> "InsufficientMemory" ]

\* C3: create_from_url, once its URL is marshalled and the engine returned
\* handle 0, returns the variant UrlTable gives for the engine's last error
\* code, and is fatal (a panic or an abort) for every other code.
C3_CreateFromUrlClassifies ==
    (result.op = "create_from_url" /\ calls # <<>> /\ calls[1].ret = 0) =>
        IF lastError \in DOMAIN UrlTable
        THEN result = Res("create_from_url", "Err", UrlTable[lastError], 0)
        ELSE result.kind \in {"panic", "abort"}

\* C4: every create_from_url that reaches the engine makes exactly one
\* open-stream-from-url call and no open-stream-from-path call.
C4_UrlOpensByUrl ==
    (result.op = "create_from_url" /\ calls # <<>>) =>
        /\ CountFn(calls, "BASS_StreamCreateURL") = 1
        /\ CountFn(calls, "BASS_StreamCreateFile") = 0

\* The last engine call was the release of the Stream, and it failed.
FreeFailed ==
    /\ calls # <<>>
    /\ calls[1].fn = "BASS_StreamFree"
    /\ calls[1].ret = 0

Classified(op, c, recoverable, variant) ==
    /\ handle = opened
    /\ IF c.ret # 0
       THEN /\ calls = <<c>>
            /\ result = Res(op, "Ok", "none", 0)
            /\ phase = "live"
       ELSE IF lastError = recoverable
       THEN /\ result = Res(op, "Err", variant, 0)
            /\ phase = "live"
       ELSE /\ result.kind = "panic"
            /\ phase = "unwinding"

\* C6: play() calls channel-play once with the Stream's handle and restart
\* flag 0, pause() calls channel-pause once with the handle; on success they
\* return Ok without asking for the error code, on failure play() returns
\* OutputIsPausedOrStopped for "cannot start" and pause() StreamIsNotPlaying
\* for "not playing", any other code panics; the handle never changes.
C6_PlayPauseClassify ==
    /\ JustRan("play") =>
         /\ calls[1].fn = "BASS_ChannelPlay"
         /\ calls[1].args = <<opened, 0>>
         /\ CountFn(calls, "BASS_ChannelPlay") = 1
         /\ Classified("play", calls[1], "BASS_ERROR_START", "OutputIsPausedOrStopped")
    /\ JustRan("pause") =>
         /\ calls[1].fn = "BASS_ChannelPause"
         /\ calls[1].args = <<opened>>
         /\ CountFn(calls, "BASS_ChannelPause") = 1
         /\ Classified("pause", calls[1], "BASS_ERROR_NOPLAY", "StreamIsNotPlaying")

\* play() met "cannot start" and handed the error back; the Stream lives on.
C6_Witness ==
    /\ result = Res("play", "Err", "OutputIsPausedOrStopped", 0)
    /\ phase = "live"
    /\ calls[1].ret = 0
    /\ lastError = "BASS_ERROR_START"

\* C7: stop(), lock() and unlock() call channel-stop, channel-lock with flag
\* 1 and channel-lock with flag 0; a zero result panics whatever the last
\* error code is, a non-zero result returns normally, and none of them ever
\* returns a BassError.
C7_StopLockUnlockFatal ==
    /\ result.op \in {"stop", "lock", "unlock"} => result.kind # "Err"
    /\ JustRan("stop") =>
         /\ calls[1].fn = "BASS_ChannelStop"
         /\ calls[1].args = <<opened>>
    /\ JustRan("lock") =>
         /\ calls[1].fn = "BASS_ChannelLock"
         /\ calls[1].args = <<opened, 1>>
    /\ JustRan("unlock") =>
         /\ calls[1].fn = "BASS_ChannelLock"
         /\ calls[1].args = <<opened, 0>>
    /\ \A op \in {"stop", "lock", "unlock"} :
         JustRan(op) =>
            IF calls[1].ret # 0
            THEN result = Res(op, "Ok", "none", 0) /\ phase = "live"
            ELSE result.kind = "panic" /\ phase = "unwinding"

\* stop() failed with a code that pause() would have handed back, and panicked.
C7_Witness ==
    /\ JustRan("stop")
    /\ calls[1].ret = 0
    /\ lastError = "BASS_ERROR_NOPLAY"
    /\ result.kind = "panic"

\* C8: each of the ten getters returns 0.0 when get-attribute fails and the
\* value the engine stored when it succeeds, and in both cases returns
\* normally: no error, no panic, the Stream still live.
C8_GettersBestEffort ==
    (result.op \in DOMAIN Getters) =>
        /\ Len(calls) = 1
        /\ calls[1].fn = "BASS_ChannelGetAttribute"
        /\ result.kind = "Ok"
        /\ phase = "live"
        /\ calls[1].ret = 0 => result.num = 0
        /\ calls[1].ret # 0 => result.num = calls[1].wrote[1]

\* A getter whose engine call failed returned 0.0.
C8_Witness ==
    /\ result.op = "get_volume"
    /\ calls[1].ret = 0
    /\ result.num = 0

\* The attribute each setter is about.
SetterTable ==
    [ set_buffering_length |-> "BASS_ATTRIB_BUFFER",
      set_sample_rate |-> "BASS_ATTRIB_FREQ",
      set_processing_granularity |-> "BASS_ATTRIB_GRANULE",
      set_buffer_level_required_to_resume_stalled_playback |-> "BASS_ATTRIB_NET_RESUME",
      set_playback_buffering_switch |-> "BASS_ATTRIB_NOBUFFER",
      set_playback_ramping_switch |-> "BASS_ATTRIB_NORAMP",
      set_panning_position |-> "BASS_ATTRIB_PAN",
      set_volume |-> "BASS_ATTRIB_VOL" ]

\* C9: each setter makes exactly one engine call, set-attribute with the
\* Stream's handle, its own attribute identifier and the caller's value, and
\* returns normally whether that call succeeded or failed.
C9_SettersPassThrough ==
    (result.op \in DOMAIN SetterTable) =>
        /\ Len(calls) = 1
        /\ calls[1].fn = "BASS_ChannelSetAttribute"
        /\ calls[1].args = <<opened, SetterTable[result.op], arg>>
        /\ result.kind = "Ok"
        /\ phase = "live"

\* A setter was given a non-zero value, the engine refused it, and the
\* setter returned normally.
C9_Witness ==
    /\ result.op = "set_volume"
    /\ arg # 0
    /\ calls[1].ret = 0
    /\ calls[1].args[3] = arg
    /\ result.kind = "Ok"

\* C10: the native string of create_from_url is allocated, lent to the open
\* call, and released exactly once, after the call.
C10_UrlStringReleasedOnce ==
    (result.op = "create_from_url" /\ buf # <<>>) =>
        /\ buf = <<"alloc", "call", "free">>
        /\ CountEv(buf, "free") = 1

====
